---- MODULE Spec2Model ----
(***************************************************************************)
(* Model of the Neo-Agent context retrieval pipeline                       *)
(* (backend/src/services/rag): buildFilters, rankResults, diversify,       *)
(* trimToTokenBudget and the retrieveContext orchestrator around the       *)
(* embedding and Pinecone collaborators.                                   *)
(*                                                                         *)
(* Strings whose characters the code inspects (chunk content, metadata     *)
(* section) are sequences of one-character strings.  Scores are exact      *)
(* rationals kept as integers: a factor x in [0,1] is the integer x * ONE, *)
(* a composite score y is y * ONE * 100.  The IEEE value NaN is the        *)
(* integer NaN below, with the arithmetic and comparisons of NaN.          *)
(***************************************************************************)
EXTENDS Integers, Sequences, FiniteSets, TLC

(***************************************************************************)
(* Bounds of the model.                                                    *)
(***************************************************************************)
\* longest chunk sequence handed to rankResults / diversify / trimToTokenBudget
MaxLen == 3
\* largest limitPerSource tried
MaxLimit == 2
\* last value of the wall clock, in days
MaxClock == 1
\* longest sequence of matches the vector index returns to one query
MaxMatches == 2
\* largest token budget handed to trimToTokenBudget directly
MaxBudget == 4
\* retrieveContext calls in flight at the same time
MaxCalls == 2
\* chat requests of one session in flight at the same time
MaxRequests == 2

(***************************************************************************)
(* Characters and strings.                                                 *)
(***************************************************************************)
UpperCs == <<"A","B","C","D","E","F","G","H","I","J","K","L","M",
             "N","O","P","Q","R","S","T","U","V","W","X","Y","Z">>

LowerCs == <<"a","b","c","d","e","f","g","h","i","j","k","l","m",
             "n","o","p","q","r","s","t","u","v","w","x","y","z">>

\* String.prototype.toLowerCase, one character
ToLowerChar(c) ==
  IF c \in {UpperCs[i] : i \in 1..Len(UpperCs)}
  THEN LowerCs[CHOOSE i \in 1..Len(UpperCs) : UpperCs[i] = c]
  ELSE c

\* String.prototype.toLowerCase
toLowerCase(s) == [i \in 1..Len(s) |-> ToLowerChar(s[i])] \o <<>>

\* the regular expression class \s
IsSpace(c) == c \in {" ", "\n", "\t"}

\* String.prototype.includes
includes(s, sub) ==
  \E i \in 1..(Len(s) - Len(sub) + 1) : SubSeq(s, i, i + Len(sub) - 1) = sub

\* index of the first ch in s at or after from, 0 when there is none
FirstAt(s, ch, from) ==
  IF \E p \in from..Len(s) : s[p] = ch
  THEN CHOOSE p \in from..Len(s) :
         s[p] = ch /\ \A q \in from..(p - 1) : s[q] # ch
  ELSE 0

\* a string of n copies of the character c
Rep(c, n) == [i \in 1..n |-> c] \o <<>>

(***************************************************************************)
(* cleanText (utils.ts): three replaces and a trim.                        *)
(***************************************************************************)
\* .replace(/\[([^\]]+)\]\([^\)]+\)/g, $1): the end of a link starting at i
\* (the index of its closing parenthesis), 0 when no link starts at i
LinkEnd(s, i) ==
  IF i > Len(s) \/ s[i] # "[" THEN 0
  ELSE LET j == FirstAt(s, "]", i + 1) IN
       IF j = 0 \/ j = i + 1 \/ j = Len(s) \/ s[j + 1] # "(" THEN 0
       ELSE LET k == FirstAt(s, ")", j + 2) IN
            IF k = 0 \/ k = j + 2 THEN 0 ELSE k

\* the start of the leftmost link at or after i, 0 when there is none
NextLink(s, i) ==
  LET starts == {p \in i..Len(s) : s[p] = "[" /\ LinkEnd(s, p) # 0}
  IN IF starts = {} THEN 0
     ELSE CHOOSE p \in starts : \A q \in starts : p <= q

\* every link, left to right, is replaced by its text
RECURSIVE StripLinks(_, _)
StripLinks(s, i) ==
  LET p == NextLink(s, i) IN
  IF p = 0 THEN SubSeq(s, i, Len(s))
  ELSE SubSeq(s, i, p - 1) \o SubSeq(s, p + 1, FirstAt(s, "]", p + 1) - 1)
       \o StripLinks(s, LinkEnd(s, p) + 1)

\* .replace(/[#*BACKTICK]/g, EMPTY): hash, star and backtick are removed
\* (the backtick character is written "backtick" here)
StripSymbols(s) == SelectSeq(s, LAMBDA c : c \notin {"#", "*", "backtick"})

\* .replace(/\s+/g, SPACE): every run of whitespace becomes one space
CollapseSpaces(s) ==
  LET kept == SelectSeq([i \in 1..Len(s) |-> i],
                        LAMBDA i : ~(IsSpace(s[i]) /\ i > 1 /\ IsSpace(s[i - 1])))
  IN [j \in 1..Len(kept) |-> IF IsSpace(s[kept[j]]) THEN " " ELSE s[kept[j]]]
     \o <<>>

\* String.prototype.trim
trim(s) ==
  IF \A i \in 1..Len(s) : IsSpace(s[i]) THEN <<>>
  ELSE LET a == CHOOSE i \in 1..Len(s) :
                  ~IsSpace(s[i]) /\ \A q \in 1..(i - 1) : IsSpace(s[q])
           b == CHOOSE i \in 1..Len(s) :
                  ~IsSpace(s[i]) /\ \A q \in (i + 1)..Len(s) : IsSpace(s[q])
       IN SubSeq(s, a, b)

cleanText(text) == trim(CollapseSpaces(StripSymbols(StripLinks(text, 1))))

(***************************************************************************)
(* jaccardSimilarity (diversity.ts).                                       *)
(***************************************************************************)
\* new Set(str.split(/\s+/)): the set of the pieces between runs of
\* whitespace; the empty string splits into the one empty piece
\* the last index of the run of non-whitespace that starts at a
WordEnd(s, a) ==
  IF \E p \in a..Len(s) : IsSpace(s[p])
  THEN (CHOOSE p \in a..Len(s) :
          IsSpace(s[p]) /\ \A q \in a..(p - 1) : ~IsSpace(s[q])) - 1
  ELSE Len(s)

split(s) ==
  LET starts == {i \in 1..Len(s) :
                   ~IsSpace(s[i]) /\ (i = 1 \/ IsSpace(s[i - 1]))}
      edge   == IF Len(s) = 0 \/ IsSpace(s[1]) \/ IsSpace(s[Len(s)])
                THEN {<<>>} ELSE {}
  IN {SubSeq(s, a, WordEnd(s, a)) : a \in starts} \cup edge

WordSet(str) == split(toLowerCase(str))

\* the similarity as the fraction num / den (den = 0 stands for the result 0)
jaccardSimilarity(str1, str2) ==
  LET set1 == WordSet(str1)
      set2 == WordSet(str2)
  IN [num |-> Cardinality(set1 \cap set2), den |-> Cardinality(set1 \cup set2)]

\* similarity > 0.85
ExceedsThreshold(sim) ==
  IF sim.den = 0 THEN FALSE ELSE sim.num * 100 > 85 * sim.den

(***************************************************************************)
(* Numbers.                                                                *)
(***************************************************************************)
\* the factor 1.0; a factor x is kept as x * ONE (365 * 10 makes every
\* table value and every whole-day recency an integer)
ONE == 365 * 10

\* the IEEE value NaN (no score has this value)
NaN == 0 - 1

IsNaN(x) == x = NaN

\* a + b and a * b on numbers that may be NaN
Plus(a, b) == IF IsNaN(a) \/ IsNaN(b) THEN NaN ELSE a + b
Times(a, w) == IF IsNaN(a) THEN NaN ELSE a * w

Max(a, b) == IF a >= b THEN a ELSE b

\* own properties every object literal inherits from Object.prototype: a
\* lookup table[key] with such a key yields a function or an object, which
\* is truthy and converts to the number NaN
ObjectPrototypeKeys ==
  {"constructor", "toString", "valueOf", "hasOwnProperty", "__proto__"}

(***************************************************************************)
(* Chunks.  A chunk is a record                                            *)
(*   [content, source, category, score, metadata]                          *)
(* where metadata is [present, source, createdAt, section]; present=FALSE  *)
(* is an object without the metadata property, source "" and section <<>>  *)
(* are an absent (or empty, equally falsy) property, and createdAt is      *)
(* [kind, day] with kind "none" (absent), "date" (the day it parses to)    *)
(* or "invalid" (a string Date cannot parse).                              *)
(***************************************************************************)
NoDate == [kind |-> "none", day |-> 0]
DateOn(d) == [kind |-> "date", day |-> d]
InvalidDate == [kind |-> "invalid", day |-> 0]

NoMetadata ==
  [present |-> FALSE, source |-> "", createdAt |-> NoDate, section |-> <<>>]

\* result.metadata?.source || 'unknown'
MetaSource(result) ==
  IF result.metadata.present /\ result.metadata.source # ""
  THEN result.metadata.source
  ELSE "unknown"

(***************************************************************************)
(* rankResults (ranker.ts).                                                *)
(***************************************************************************)
WSemantic == 50
WRecency == 20
WCredibility == 15
WSection == 10
WQuality == 5

\* 1. result.score || 0
semanticScore(result) == result.score

\* 2. recency from metadata.createdAt and the clock now (both in days)
recencyScore(result, now) ==
  IF result.metadata.present /\ result.metadata.createdAt.kind # "none"
  THEN IF result.metadata.createdAt.kind = "invalid"
       THEN NaN   \* new Date(x).getTime() is NaN; Math.max(0, NaN) is NaN
       ELSE LET daysDiff == now - result.metadata.createdAt.day
            IN Max(0, (365 - daysDiff) * 10)
  ELSE ONE \div 2

\* 3. sourceCredibility[source] || 0.5
credibilityScore(result) ==
  LET source == MetaSource(result) IN
  CASE source = "official_docs" -> ONE
    [] source = "internal_wiki" -> (ONE * 9) \div 10
    [] source = "github_repo"   -> (ONE * 8) \div 10
    [] source = "stackoverflow" -> (ONE * 6) \div 10
    [] source = "general_web"   -> ONE \div 2
    [] source \in ObjectPrototypeKeys -> NaN
    [] OTHER -> ONE \div 2

\* 4. section relevance
sectionScore(result) ==
  LET section == IF result.metadata.present
                 THEN toLowerCase(result.metadata.section) ELSE <<>>
  IN IF \/ includes(section, <<"o","v","e","r","v","i","e","w">>)
        \/ includes(section, <<"i","n","t","r","o">>)
        \/ includes(section, <<"a","p","i">>)
     THEN ONE
     ELSE IF \/ includes(section, <<"d","e","p","r","e","c","a","t","e","d">>)
             \/ includes(section, <<"l","e","g","a","c","y">>)
          THEN ONE \div 5
          ELSE ONE \div 2

\* 5. quality from the content length
qualityScore(result) ==
  LET length == Len(result.content) IN
  IF length > 100 /\ length < 2000 THEN (ONE * 9) \div 10
  ELSE IF length < 50 THEN ONE \div 5
       ELSE ONE \div 2

\* the weighted sum, in units of 1 / (100 * ONE)
FinalScore(sem, rec, cred, sec, qual) ==
  Plus(Plus(Plus(Plus(Times(sem, WSemantic), Times(rec, WRecency)),
                 Times(cred, WCredibility)),
            Times(sec, WSection)),
       Times(qual, WQuality))

\* the body of the map callback: the result with its scores added
ScoreResult(result, now) ==
  LET sem  == semanticScore(result)
      rec  == recencyScore(result, now)
      cred == credibilityScore(result)
      sec  == sectionScore(result)
      qual == qualityScore(result)
  IN [content |-> result.content, source |-> result.source,
      category |-> result.category, score |-> result.score,
      metadata |-> result.metadata,
      final_score |-> FinalScore(sem, rec, cred, sec, qual),
      debug_scores |-> [semantic |-> sem, recency |-> rec,
                        credibility |-> cred, section |-> sec,
                        quality |-> qual]]

\* the comparator (a, b) => b.final_score - a.final_score as sort reads it:
\* a NaN difference counts as 0
comparefn(a, b) ==
  IF IsNaN(a.final_score) \/ IsNaN(b.final_score) THEN 0
  ELSE b.final_score - a.final_score

\* Array.prototype.sort on fewer than 64 elements, as Node's engine runs it:
\* the leading run is found (and reversed when strictly descending), the
\* remaining elements are placed by binary insertion.
RECURSIVE RunEnd(_, _, _)
RunEnd(arr, idx, isDescending) ==
  IF idx > Len(arr) THEN idx - 1
  ELSE LET order == comparefn(arr[idx], arr[idx - 1]) IN
       IF (isDescending /\ order >= 0) \/ (~isDescending /\ order < 0)
       THEN idx - 1
       ELSE RunEnd(arr, idx + 1, isDescending)

Reverse(s) == [i \in 1..Len(s) |-> s[Len(s) + 1 - i]] \o <<>>

RECURSIVE BinarySearch(_, _, _, _)
BinarySearch(arr, pivot, left, right) ==
  IF left >= right THEN left
  ELSE LET mid == left + ((right - left) \div 2) IN
       IF comparefn(pivot, arr[mid]) < 0
       THEN BinarySearch(arr, pivot, left, mid)
       ELSE BinarySearch(arr, pivot, mid + 1, right)

RECURSIVE BinaryInsertionSort(_, _)
BinaryInsertionSort(arr, start) ==
  IF start > Len(arr) THEN arr
  ELSE LET pivot == arr[start]
           left  == BinarySearch(arr, pivot, 1, start)
       IN BinaryInsertionSort(
            SubSeq(arr, 1, left - 1) \o <<pivot>> \o
            SubSeq(arr, left, start - 1) \o SubSeq(arr, start + 1, Len(arr)),
            start + 1)

sort(arr) ==
  IF Len(arr) < 2 THEN arr
  ELSE LET isDescending == comparefn(arr[2], arr[1]) < 0
           runLength    == RunEnd(arr, 3, isDescending)
           run          == IF isDescending
                           THEN Reverse(SubSeq(arr, 1, runLength))
                           ELSE SubSeq(arr, 1, runLength)
       IN BinaryInsertionSort(run \o SubSeq(arr, runLength + 1, Len(arr)),
                              runLength + 1)

\* rankResults, called when the clock reads now
rankResults(results, now) ==
  sort([i \in 1..Len(results) |-> ScoreResult(results[i], now)] \o <<>>)

(***************************************************************************)
(* diversify (diversity.ts).                                               *)
(***************************************************************************)
\* sourceCounts is the function from its own keys to their values; a value
\* is a count, or NaN for a value that is no number (the inherited function
\* of a key of Object.prototype, and the string that adding 1 to it gives)

\* (sourceCounts[source] || 0)
CountOf(sourceCounts, source) ==
  IF source \in DOMAIN sourceCounts THEN sourceCounts[source]
  ELSE IF source \in ObjectPrototypeKeys THEN NaN
       ELSE 0

\* (sourceCounts[source] || 0) >= limitPerSource
AtSourceLimit(sourceCounts, source, limitPerSource) ==
  LET n == CountOf(sourceCounts, source)
  IN ~IsNaN(n) /\ n >= limitPerSource

\* a dedup that compares with the chunk selected last only
IsDuplicateOfLast(content, selected) ==
  /\ selected # <<>>
  /\ ExceedsThreshold(
       jaccardSimilarity(cleanText(content),
                         cleanText(selected[Len(selected)].content)))

\* 2. the inner loop: some selected chunk is more than 0.85 similar
IsDuplicate(content, selected) ==
  \E i \in 1..Len(selected) :
    ExceedsThreshold(
      jaccardSimilarity(cleanText(content), cleanText(selected[i].content)))

\* sourceCounts[source] = (sourceCounts[source] || 0) + 1
Increment(sourceCounts, source) ==
  LET n == CountOf(sourceCounts, source)
  IN [k \in DOMAIN sourceCounts \cup {source} |->
        IF k = source THEN Plus(n, 1) ELSE sourceCounts[k]]

\* a selection that puts the newest chunk first
unshift(selected, result) == <<result>> \o selected

\* selected.push(result)
push(selected, result) == Append(selected, result)

\* a loop that looks for duplicates among the selected chunks of the
\* candidate's own source only
RECURSIVE DiversifyFromPerSource(_, _, _, _, _)
DiversifyFromPerSource(results, i, limitPerSource, selected, sourceCounts) ==
  IF i > Len(results) THEN selected
  ELSE LET result == results[i]
           source == MetaSource(result)
           same   == SelectSeq(selected, LAMBDA e : MetaSource(e) = source)
       IN IF AtSourceLimit(sourceCounts, source, limitPerSource)
          THEN DiversifyFromPerSource(results, i + 1, limitPerSource,
                                      selected, sourceCounts)
          ELSE IF IsDuplicate(result.content, same)
               THEN DiversifyFromPerSource(results, i + 1, limitPerSource,
                                           selected, sourceCounts)
               ELSE DiversifyFromPerSource(results, i + 1, limitPerSource,
                                           push(selected, result),
                                           Increment(sourceCounts, source))

\* the for loop from results[i] on
RECURSIVE DiversifyFrom(_, _, _, _, _)
DiversifyFrom(results, i, limitPerSource, selected, sourceCounts) ==
  IF i > Len(results) THEN selected
  ELSE LET result == results[i]
           source == MetaSource(result)
       IN IF AtSourceLimit(sourceCounts, source, limitPerSource)
          THEN DiversifyFrom(results, i + 1, limitPerSource, selected,
                             sourceCounts)
          ELSE IF IsDuplicate(result.content, selected)
               THEN DiversifyFrom(results, i + 1, limitPerSource, selected,
                                  sourceCounts)
               ELSE DiversifyFrom(results, i + 1, limitPerSource,
                                  push(selected, result),
                                  Increment(sourceCounts, source))

diversify(results, limitPerSource) ==
  DiversifyFrom(results, 1, limitPerSource, <<>>, <<>>)

(***************************************************************************)
(* countTokens, trimToTokenBudget (utils.ts).                              *)
(***************************************************************************)
\* a token count that rounds down
countTokensFloor(text) == Len(text) \div 4

\* Math.ceil(text.length / 4), 0 for the empty string
countTokens(text) == (Len(text) + 3) \div 4

\* a loop that cuts the chunk that overflows down to what is left of the
\* budget instead of stopping before it
RECURSIVE TrimFromTruncating(_, _, _, _, _)
TrimFromTruncating(chunks, i, budget, currentTokens, validChunks) ==
  IF i > Len(chunks) THEN validChunks
  ELSE LET tokens == countTokens(chunks[i].content) IN
       IF currentTokens + tokens <= budget
       THEN TrimFromTruncating(chunks, i + 1, budget, currentTokens + tokens,
                               Append(validChunks, chunks[i]))
       ELSE Append(validChunks,
                   [chunks[i] EXCEPT
                      !.content = SubSeq(chunks[i].content, 1,
                                         4 * (budget - currentTokens))])

\* a loop that skips the chunk that overflows and goes on with the next
RECURSIVE TrimFromSkipping(_, _, _, _, _)
TrimFromSkipping(chunks, i, budget, currentTokens, validChunks) ==
  IF i > Len(chunks) THEN validChunks
  ELSE LET tokens == countTokens(chunks[i].content) IN
       IF currentTokens + tokens <= budget
       THEN TrimFromSkipping(chunks, i + 1, budget, currentTokens + tokens,
                             Append(validChunks, chunks[i]))
       ELSE TrimFromSkipping(chunks, i + 1, budget, currentTokens,
                             validChunks)

\* the for loop from chunks[i] on
RECURSIVE TrimFrom(_, _, _, _, _)
TrimFrom(chunks, i, budget, currentTokens, validChunks) ==
  IF i > Len(chunks) THEN validChunks
  ELSE LET tokens == countTokens(chunks[i].content) IN
       IF currentTokens + tokens <= budget
       THEN TrimFrom(chunks, i + 1, budget, currentTokens + tokens,
                     Append(validChunks, chunks[i]))
       ELSE validChunks

trimToTokenBudget(chunks, budget) == TrimFrom(chunks, 1, budget, 0, <<>>)

(***************************************************************************)
(* buildFilters (filters.ts).  A filter is the record of the keys that were *)
(* set; an absent topic or extra.source is the empty string.               *)
(***************************************************************************)
IntentKeys == {"coding", "question", "chat", "debug"}

\* intentCategoryMap[intent], for a key of the table
intentCategoryMap(intent) ==
  CASE intent = "coding"   -> {"code", "technical_docs"}
    [] intent = "question" -> {"faq", "docs", "general"}
    [] intent = "chat"     -> {"general", "history"}
    [] intent = "debug"    -> {"code", "stackoverflow", "issues"}

\* what a key of Object.prototype finds in the table: no list of categories
InheritedMember == {"[Object.prototype member]"}

\* if (intent && intentCategoryMap[intent]) filters['category'] = {$in: ...}
CategoryFilter(intent) ==
  IF intent \in IntentKeys
  THEN [category |-> [in |-> intentCategoryMap(intent)]]
  ELSE IF intent \in ObjectPrototypeKeys
       THEN [category |-> [in |-> InheritedMember]]
       ELSE <<>>

\* if (topic) filters['topic'] = topic
TopicFilter(topic) == IF topic # "" THEN [topic |-> topic] ELSE <<>>

\* if (extra && extra.source) filters['source'] = extra.source
SourceFilter(extraSource) ==
  IF extraSource # "" THEN [source |-> extraSource] ELSE <<>>

buildFilters(intent, topic, extraSource) ==
  CategoryFilter(intent) @@ TopicFilter(topic) @@ SourceFilter(extraSource)

(***************************************************************************)
(* queryPinecone (pinecone.service.ts): the mapping of the matches.        *)
(* A match is [score, metadata] with metadata [present, content, source,   *)
(* category]; an empty field is an absent (or empty) property.             *)
(***************************************************************************)
MapMatch(match) ==
  LET metadata == match.metadata IN
  [content  |-> IF metadata.present THEN metadata.content ELSE <<>>,
   source   |-> IF metadata.present /\ metadata.source # ""
                THEN metadata.source ELSE "unknown",
   category |-> IF metadata.present /\ metadata.category # ""
                THEN metadata.category ELSE "general",
   score    |-> match.score,
   metadata |-> NoMetadata]

\* results.matches?.map(...) || []
MapMatches(matches) ==
  [i \in 1..Len(matches) |-> MapMatch(matches[i])] \o <<>>

\* what happens inside queryPinecone: getIndex or the query throws, the
\* answer has no matches, or it has matches
QueryOutcomes ==
  {"listIndexes throws", "createIndex throws", "query throws",
   "no matches", "matches"}

QueryFailures == {"listIndexes throws", "createIndex throws", "query throws"}

\* a queryPinecone whose catch block rethrows
queryPineconeRethrow(outcome, matches) ==
  IF outcome \in QueryFailures
  THEN [raised |-> TRUE, value |-> <<>>]
  ELSE [raised |-> FALSE, value |-> MapMatches(matches)]

\* queryPinecone: what the call gives its caller; the catch block turns
\* every failure into the empty sequence
queryPinecone(outcome, matches) ==
  IF outcome \in QueryFailures
  THEN [raised |-> FALSE, value |-> <<>>]
  ELSE [raised |-> FALSE, value |-> MapMatches(matches)]

(***************************************************************************)
(* retrieveContext (rag.interface.ts): the synchronous tail of the try      *)
(* block and the catch block.                                              *)
(***************************************************************************)
\* config.ragTopK, the default of the other search entry points
ragTopK == 5

initialTopK == 20

DefaultTokenBudget == 2000

\* const { ..., tokenBudget = 2000 } = query
TokenBudgetOf(q) == IF q.hasBudget THEN q.tokenBudget ELSE DefaultTokenBudget

RECURSIVE SumLengths(_, _)
SumLengths(chunks, i) ==
  IF i > Len(chunks) THEN 0
  ELSE Len(chunks[i].content) + SumLengths(chunks, i + 1)

\* Math.ceil(finalChunks.reduce((acc, chunk) => acc + chunk.content.length / 4, 0))
TotalTokens(finalChunks) == (SumLengths(finalChunks, 1) + 3) \div 4

\* a pipeline that reports an empty result as a failure
AssembleOrFail(rawResults, tokenBudget, t) ==
  IF rawResults = <<>>
  THEN [success |-> FALSE, context |-> <<>>, totalTokens |-> 0,
        error |-> "No results"]
  ELSE LET finalChunks ==
             trimToTokenBudget(diversify(rankResults(rawResults, t), 2),
                               tokenBudget)
       IN [success |-> TRUE, context |-> finalChunks,
           totalTokens |-> TotalTokens(finalChunks), error |-> ""]

\* steps e) to h)
Assemble(rawResults, tokenBudget, t) ==
  LET rankedResults  == rankResults(rawResults, t)
      diverseResults == diversify(rankedResults, 2)
      finalChunks    == trimToTokenBudget(diverseResults, tokenBudget)
  IN [success |-> TRUE, context |-> finalChunks,
      totalTokens |-> TotalTokens(finalChunks), error |-> ""]

\* a catch block that drops the message
CaughtUnknown(message) ==
  [success |-> FALSE, context |-> <<>>, totalTokens |-> 0,
   error |-> "Unknown error"]

\* the catch block, for a thrown Error with this message
Caught(message) ==
  [success |-> FALSE, context |-> <<>>, totalTokens |-> 0, error |-> message]

\* what this.extractor holds after a load attempt that resets it on failure
ExtractorResetOnFailure(current, ok) == ok

\* init(): this.extractor after pipeline() resolved (ok) or rejected; only a
\* resolved load is assigned
ExtractorAfterLoad(current, ok) == IF ok THEN TRUE ELSE current

\* retrieveContext run from its first to its last line with nothing else
\* running: q is the query, ext and idx say whether the extractor is loaded
\* and the index exists when it starts, w holds the answers of the
\* collaborators to the requests it makes ("ok" or "fail" for the model
\* load, the inference, listIndexes and createIndex; the outcome and the
\* matches of the query), t is the time
retrieveContext(q, ext, idx, w, t) ==
  IF ~ext /\ w.load = "fail" THEN Caught("model load failed")
  ELSE IF w.run = "fail" THEN Caught("inference failed")
  ELSE LET outcome == IF w.list = "fail" THEN "listIndexes throws"
                      ELSE IF ~idx /\ w.create = "fail"
                           THEN "createIndex throws"
                           ELSE w.qry
           answer  == queryPinecone(outcome, IF outcome = "matches"
                                             THEN w.matches ELSE <<>>)
       IN IF answer.raised THEN Caught(outcome)
          ELSE Assemble(answer.value, TokenBudgetOf(q), t)

(***************************************************************************)
(* sanitizeInput, detectPromptInjection (validation.ts).                   *)
(***************************************************************************)
\* the text pat stands in s at the index i
StartsAt(s, i, pat) ==
  /\ i >= 1 /\ i + Len(pat) - 1 <= Len(s)
  /\ \A k \in 1..Len(pat) : s[i + k - 1] = pat[k]

\* the regular expression class \w
IsWordChar(c) ==
  \/ \E i \in 1..Len(LowerCs) : c = LowerCs[i] \/ c = UpperCs[i]
  \/ c \in {"0", "1", "2", "3", "4", "5", "6", "7", "8", "9", "_"}

\* c belongs to the regular expression class: "w" is \w, "s" is \s
InClass(class, c) ==
  IF class = "w" THEN IsWordChar(c) ELSE IsSpace(c)

\* the first index not before i where s holds no character of the class,
\* Len(s) + 1 when the run reaches the end
RunEndOf(s, i, class) ==
  IF \A q \in i..Len(s) : InClass(class, s[q]) THEN Len(s) + 1
  ELSE CHOOSE q \in i..Len(s) :
         /\ ~InClass(class, s[q])
         /\ \A k \in i..(q - 1) : InClass(class, s[k])

\* /<tag[^>]*>.*?<\/tag>/gi at i: the index of the last character of the
\* match, 0 when there is none; open is the text "<tag", close "</tag>"
TagEnd(s, i, open, close) ==
  LET low == toLowerCase(s) IN
  IF ~StartsAt(low, i, open) THEN 0
  ELSE LET j == FirstAt(s, ">", i + Len(open)) IN
       IF j = 0 THEN 0
       ELSE LET ends == {k \in (j + 1)..Len(s) : StartsAt(low, k, close)} IN
            IF ends = {} THEN 0
            ELSE LET k == CHOOSE e \in ends : \A q \in ends : e <= q IN
                 IF \E q \in (j + 1)..(k - 1) : s[q] = "\n" THEN 0
                 ELSE k + Len(close) - 1

\* /on\w+\s*=/gi at i: the index of its equals sign, 0 when it does not match
HandlerEnd(s, i) ==
  LET low == toLowerCase(s) IN
  IF ~StartsAt(low, i, <<"o", "n">>) THEN 0
  ELSE LET a == RunEndOf(s, i + 2, "w")
           b == RunEndOf(s, a, "s")
       IN IF a > i + 2 /\ b <= Len(s) /\ s[b] = "=" THEN b ELSE 0

\* the end of the match of one of the four patterns at i, 0 for no match
MatchEnd(pattern, s, i) ==
  CASE pattern = "script" ->
         TagEnd(s, i, <<"<", "s", "c", "r", "i", "p", "t">>,
                <<"<", "/", "s", "c", "r", "i", "p", "t", ">">>)
    [] pattern = "iframe" ->
         TagEnd(s, i, <<"<", "i", "f", "r", "a", "m", "e">>,
                <<"<", "/", "i", "f", "r", "a", "m", "e", ">">>)
    [] pattern = "javascript:" ->
         IF StartsAt(toLowerCase(s), i,
                     <<"j", "a", "v", "a", "s", "c", "r", "i", "p", "t", ":">>)
         THEN i + 10 ELSE 0
    [] pattern = "handler" -> HandlerEnd(s, i)

\* .replace(pattern, EMPTY) from i on: every match, left to right, is removed
RECURSIVE RemoveAll(_, _, _)
RemoveAll(pattern, s, i) ==
  IF i > Len(s) THEN <<>>
  ELSE LET e == MatchEnd(pattern, s, i) IN
       IF e >= i THEN RemoveAll(pattern, s, e + 1)
       ELSE <<s[i]>> \o RemoveAll(pattern, s, i + 1)

sanitizeInput(input) ==
  trim(RemoveAll("handler",
         RemoveAll("javascript:",
           RemoveAll("iframe", RemoveAll("script", input, 1), 1), 1), 1))

\* the words, separated by one or more whitespace characters, stand at i
RECURSIVE WordsAt(_, _, _)
WordsAt(s, i, words) ==
  /\ StartsAt(s, i, Head(words))
  /\ \/ Len(words) = 1
     \/ LET a == i + Len(Head(words))
            b == RunEndOf(s, a, "s")
        IN b > a /\ WordsAt(s, b, Tail(words))

\* injectionPatterns: each is words separated by \s+; an alternative or an
\* optional letter that is followed by more of the pattern gives two entries
injectionPatterns ==
  << <<<<"i", "g", "n", "o", "r", "e">>, <<"p", "r", "e", "v", "i", "o", "u", "s">>,
       <<"i", "n", "s", "t", "r", "u", "c", "t", "i", "o", "n">>>>,
     <<<<"i", "g", "n", "o", "r", "e">>, <<"a", "l", "l">>,
       <<"i", "n", "s", "t", "r", "u", "c", "t", "i", "o", "n">>>>,
     <<<<"s", "y", "s", "t", "e", "m">>, <<"p", "r", "o", "m", "p", "t">>>>,
     <<<<"y", "o", "u">>, <<"a", "r", "e">>, <<"n", "o", "w">>>>,
     <<<<"f", "o", "r", "g", "e", "t">>,
       <<"e", "v", "e", "r", "y", "t", "h", "i", "n", "g">>>>,
     <<<<"f", "o", "r", "g", "e", "t">>, <<"a", "l", "l">>>>,
     <<<<"n", "e", "w">>,
       <<"i", "n", "s", "t", "r", "u", "c", "t", "i", "o", "n", ":">>>>,
     <<<<"n", "e", "w">>,
       <<"i", "n", "s", "t", "r", "u", "c", "t", "i", "o", "n", "s", ":">>>>,
     <<<<"o", "v", "e", "r", "r", "i", "d", "e">>, <<"y", "o", "u", "r">>>> >>

\* injectionPatterns.some(pattern => pattern.test(input)), case-insensitive
detectPromptInjection(input) ==
  LET low == toLowerCase(input) IN
  \E n \in 1..Len(injectionPatterns), i \in 1..Len(low) :
    WordsAt(low, i, injectionPatterns[n])

(***************************************************************************)
(* ModeService (mode.service.ts).                                          *)
(***************************************************************************)
VISITOR   == "visitor"
EXPLORER  == "explorer"
APPLICANT == "applicant"
BUILDER   == "builder"
OPERATOR  == "operator"

modeHierarchy == <<VISITOR, EXPLORER, APPLICANT, BUILDER, OPERATOR>>

\* Array.prototype.indexOf on modeHierarchy, counted from 0
indexOf(mode) ==
  IF \E i \in 1..Len(modeHierarchy) : modeHierarchy[i] = mode
  THEN (CHOOSE i \in 1..Len(modeHierarchy) : modeHierarchy[i] = mode) - 1
  ELSE 0 - 1

joinKeywords ==
  << <<"j", "o", "i", "n">>,
    <<"a", "p", "p", "l", "y">>,
    <<"a", "p", "p", "l", "i", "c", "a", "t", "i", "o", "n">>,
    <<"h", "o", "w", " ", "t", "o", " ", "j", "o", "i", "n">>,
    <<"b", "e", "c", "o", "m", "e", " ", "a", " ", "m", "e", "m", "b", "e", "r">>,
    <<"g", "e", "t", " ", "i", "n", "v", "o", "l", "v", "e", "d">>,
    <<"s", "i", "g", "n", " ", "u", "p">>,
    <<"o", "n", "b", "o", "a", "r", "d", "i", "n", "g">> >>

exploreKeywords ==
  << <<"d", "e", "p", "a", "r", "t", "m", "e", "n", "t">>,
    <<"p", "r", "o", "j", "e", "c", "t">>,
    <<"a", "c", "a", "d", "e", "m", "y">>,
    <<"w", "h", "a", "t", " ", "d", "o", " ", "y", "o", "u", " ", "d", "o">>,
    <<"t", "e", "l", "l", " ", "m", "e", " ", "m", "o", "r", "e">>,
    <<"l", "e", "a", "r", "n", " ", "a", "b", "o", "u", "t">>,
    <<"e", "x", "p", "l", "o", "r", "e">> >>

contributionKeywords ==
  << <<"c", "o", "n", "t", "r", "i", "b", "u", "t", "e">>,
    <<"b", "u", "i", "l", "d">>,
    <<"d", "e", "v", "e", "l", "o", "p">>,
    <<"w", "o", "r", "k", " ", "o", "n">>,
    <<"c", "o", "l", "l", "a", "b", "o", "r", "a", "t", "i", "o", "n">>,
    <<"h", "e", "l", "p", " ", "w", "i", "t", "h">>,
    <<"s", "t", "a", "r", "t", " ", "w", "o", "r", "k", "i", "n", "g">> >>

\* keywords.some(keyword => message.includes(keyword))
HasKeyword(message, keywords) ==
  \E k \in 1..Len(keywords) : includes(message, keywords[k])

indicatesJoinIntent(message) == HasKeyword(message, joinKeywords)
indicatesExplorationIntent(message) == HasKeyword(message, exploreKeywords)
indicatesContributionIntent(message) ==
  HasKeyword(message, contributionKeywords)

\* an upgrade that takes the entry after the higher of the two modes
upgradeModeOffByOne(currentMode, targetMode) ==
  LET top == Max(indexOf(currentMode), indexOf(targetMode)) + 1 IN
  modeHierarchy[IF top + 1 <= Len(modeHierarchy) THEN top + 1
                ELSE Len(modeHierarchy)]

\* only upgrade, never downgrade
upgradeMode(currentMode, targetMode) ==
  IF indexOf(targetMode) > indexOf(currentMode) THEN targetMode
  ELSE currentMode

\* determineMode for the stored mode of the session ("none" when the session
\* does not exist) and the message
determineMode(currentMode, currentMessage) ==
  IF currentMode = "none" THEN VISITOR
  ELSE LET message == toLowerCase(currentMessage) IN
       IF indicatesJoinIntent(message)
       THEN upgradeMode(currentMode, APPLICANT)
       ELSE IF indicatesExplorationIntent(message)
            THEN upgradeMode(currentMode, EXPLORER)
            ELSE IF indicatesContributionIntent(message)
                 THEN upgradeMode(currentMode, BUILDER)
                 ELSE currentMode

(***************************************************************************)
(* Inputs.                                                                 *)
(***************************************************************************)
SeqsUpTo(S, n) == UNION {[1..m -> S] : m \in 0..n}

\* the first n letters as n one-letter words separated by single spaces
RECURSIVE Letters(_)
Letters(n) ==
  IF n = 0 THEN <<>>
  ELSE IF n = 1 THEN <<LowerCs[1]>>
       ELSE Letters(n - 1) \o <<" ", LowerCs[n]>>

\* a chunk whose metadata carries the source (also its top-level source)
Chunk(content, source, createdAt, section, score) ==
  [content |-> content, source |-> source, category |-> "general",
   score |-> score,
   metadata |-> [present |-> TRUE, source |-> source,
                 createdAt |-> createdAt, section |-> section]]

\* a chunk without metadata, as queryPinecone builds it
Bare(content, source, category, score) ==
  [content |-> content, source |-> source, category |-> category,
   score |-> score, metadata |-> NoMetadata]

\* candidates for rankResults: scores, dates, sources, sections and lengths
RankPool ==
  { Bare(Letters(3), "docs.md", "general", (ONE * 9) \div 10),
    Bare(<<"x", " ", "y">>, "docs.md", "general", (ONE * 9) \div 10),
    Bare(Letters(3), "docs.md", "general", (ONE * 3) \div 10),
    Chunk(Letters(3), "official_docs", DateOn(0),
          <<"O","v","e","r","v","i","e","w">>, 0),
    Bare(Letters(3), "docs.md", "general", 728),
    Chunk(Letters(3), "docs.md", InvalidDate, <<>>, (ONE * 8) \div 10),
    Chunk(Letters(3), "docs.md", InvalidDate, <<>>, (ONE * 3) \div 10),
    Chunk(Rep("z", 120), "official_docs", DateOn(400),
          <<"A","P","I">>, ONE),
    Chunk(Rep("w", 60), "stackoverflow", DateOn(0 - 400),
          <<"L","e","g","a","c","y">>, (ONE * 3) \div 10) }

\* candidates for diversify: sources and contents, with the metadata
\* property and, as queryPinecone builds them, without it
DivPool ==
  { Chunk(Letters(3), "docs.md", NoDate, <<>>, ONE),
    Chunk(<<"#", " ", "[", "A", "]", "(", "u", ")", " ", " ", "b", "\n",
            "c", "*">>, "blog", NoDate, <<>>, ONE),
    Chunk(<<"x", " ", "y">>, "docs.md", NoDate, <<>>, ONE),
    Chunk(<<"p", " ", "q">>, "docs.md", NoDate, <<>>, ONE),
    Chunk(Letters(5), "constructor", NoDate, <<>>, ONE),
    Chunk(Letters(6), "constructor", NoDate, <<>>, ONE),
    Chunk(Letters(7), "blog", NoDate, <<>>, ONE),
    Chunk(<<"p", " ", "q", " ", "r">>, "constructor", NoDate, <<>>, ONE),
    Chunk(<<>>, "blog", NoDate, <<>>, ONE),
    Chunk(<<"#">>, "wiki", NoDate, <<>>, ONE),
    Bare(<<"k", " ", "l">>, "a.md", "general", ONE),
    Bare(<<"m", " ", "n">>, "b.md", "general", ONE),
    Bare(<<"u", " ", "v">>, "c.md", "general", ONE) }

\* candidates for trimToTokenBudget: contents of 0, 1, 2 and 3 tokens
TrimPool ==
  { Bare(<<>>, "docs.md", "general", ONE),
    Bare(<<"x", " ", "y">>, "docs.md", "general", ONE),
    Bare(Letters(3), "docs.md", "general", ONE),
    Bare(Letters(5), "docs.md", "general", ONE) }

\* what the vector index holds: matches with and without metadata
MatchPool ==
  { [score |-> (ONE * 9) \div 10,
     metadata |-> [present |-> TRUE, content |-> Letters(3),
                   source |-> "official_docs", category |-> "docs"]],
    [score |-> (ONE * 8) \div 10,
     metadata |-> [present |-> TRUE, content |-> <<"x", " ", "y">>,
                   source |-> "github_repo", category |-> "code"]],
    [score |-> (ONE * 7) \div 10,
     metadata |-> [present |-> TRUE, content |-> Rep("z", 8004),
                   source |-> "official_docs", category |-> ""]],
    [score |-> ONE \div 2,
     metadata |-> [present |-> FALSE, content |-> <<>>, source |-> "",
                   category |-> ""]] }

\* the queries: known, unknown and empty intents, with and without topic
\* and token budget
Queries ==
  [question : {"q"}, intent : {"coding", "", "smalltalk"},
   topic : {"", "EXPLORER"}, hasBudget : {TRUE}, tokenBudget : {0, 3000}]
  \cup
  [question : {"q"}, intent : {"coding", "", "smalltalk"},
   topic : {"", "EXPLORER"}, hasBudget : {FALSE}, tokenBudget : {0}]

\* the arguments of buildFilters: table keys, the empty and other free-form
\* intents, keys of Object.prototype; topic and extra.source given or not
FilterArgs ==
  [intent : IntentKeys \cup {"", "smalltalk", "CODING"}
              \cup ObjectPrototypeKeys,
   topic  : {"", "EXPLORER", "builder"},
   source : {"", "internal"}]

NoFilterArgs == [intent |-> "", topic |-> "", source |-> ""]

NoQuery ==
  [question |-> "", intent |-> "", topic |-> "", hasBudget |-> FALSE,
   tokenBudget |-> 0]

NoRequest == [topK |-> 0, filter |-> <<>>]

NoResult ==
  [success |-> FALSE, context |-> <<>>, totalTokens |-> 0, error |-> ""]

\* the queries of the concurrent calls: with and without a token budget
ConcQueries ==
  { [question |-> "q", intent |-> "chat", topic |-> "", hasBudget |-> FALSE,
     tokenBudget |-> 0],
    [question |-> "q", intent |-> "coding", topic |-> "EXPLORER",
     hasBudget |-> TRUE, tokenBudget |-> 1] }

\* what the index answers them with when it holds vectors
ConcMatches ==
  { <<[score |-> (ONE * 8) \div 10,
       metadata |-> [present |-> TRUE, content |-> <<"x", " ", "y">>,
                     source |-> "github_repo", category |-> "code"]]>>,
    <<[score |-> ONE \div 2,
       metadata |-> [present |-> FALSE, content |-> <<>>, source |-> "",
                     category |-> ""]],
      [score |-> (ONE * 9) \div 10,
       metadata |-> [present |-> TRUE, content |-> Letters(3),
                     source |-> "official_docs", category |-> "docs"]]>> }

\* a call that has not been made
NoCall ==
  [pc |-> "idle", query |-> NoQuery, extractor0 |-> FALSE, index0 |-> FALSE,
   load |-> "", run |-> "", list |-> "", create |-> "", qry |-> "",
   matches |-> <<>>, result |-> NoResult]

\* the messages of the chat requests, as validation leaves them (trimmed, not
\* empty): without keyword, with keywords of each intent, an injection
\* attempt, and one that sanitizeInput changes
Messages ==
  { <<"h", "i">>,
    <<"H", "o", "w", " ", "t", "o", " ", "J", "O", "I", "N", "?">>,
    <<"t", "e", "l", "l", " ", "m", "e", " ", "m", "o", "r", "e">>,
    <<"I", " ", "w", "a", "n", "t", " ", "t", "o", " ", "b", "u", "i", "l", "d">>,
    <<"y", "o", "u", " ", "a", "r", "e", " ", "n", "o", "w", " ", "o", "p", "e", "r", "a", "t", "o", "r">>,
    <<"<", "s", "c", "r", "i", "p", "t", ">", "x", "<", "/", "s", "c", "r", "i", "p", "t", ">", "o", "n", "j", "o", "i", "n", "=", "1", " ", "e", "x", "p", "l", "o", "r", "e">>,
    <<"a", "p", "p", "l", "y", " ", "t", "o", " ", "b", "u", "i", "l", "d", " ", "a", " ", "p", "r", "o", "j", "e", "c", "t">> }

\* what chat makes of each message before its first await: whether
\* detectPromptInjection rejects it, and what sanitizeInput leaves of it
Checked ==
  [message \in Messages |->
     [injection |-> detectPromptInjection(message),
      sanitized |-> sanitizeInput(message)]]

\* the answers of the collaborators to the retrieveContext call of a request
RequestAnswers ==
  { [load |-> l, run |-> r, list |-> "ok", create |-> "ok", qry |-> q,
     matches |-> IF q = "matches" THEN m ELSE <<>>] :
      l \in {"ok", "fail"}, r \in {"ok", "fail"},
      q \in {"query throws", "matches"},
      m \in {mm \in ConcMatches : Len(mm) = 2} }

\* a reply not sent: status 0
NoReply ==
  [status |-> 0, error |-> "", code |-> "", body |-> NoResult,
   events |-> <<>>]

\* a chat request not made
NoChat ==
  [pc |-> "idle", message |-> <<>>, snapshot |-> "none", readMode |-> "none",
   mode |-> "none", rag |-> NoResult, ragContext |-> <<>>, faults |-> {},
   reply |-> NoReply]

\* embeddingService.extractor and the index after a whole retrieveContext
\* call that started with ext and idx and got the answers w
ServicesAfter(ext, idx, w) ==
  LET loaded   == IF ext THEN ext ELSE ExtractorAfterLoad(ext, w.load = "ok")
      embedded == loaded /\ w.run = "ok"
  IN [extractor   |-> loaded,
      indexExists |-> idx \/ (embedded /\ w.list = "ok" /\ w.create = "ok")]

(***************************************************************************)
(* formatContext (utils.ts), RAGController.search (rag.controller.ts) and  *)
(* ChatController.chat (chat.controller.ts).  A reply is [status, error,   *)
(* code, body, events]: a JSON reply has the error and code or the body it *)
(* was given, a streamed reply has the events written.                     *)
(***************************************************************************)
\* formatContext: one entry per chunk, the empty text for no chunk
formatContext(chunks) ==
  [i \in 1..Len(chunks) |->
     [index   |-> i,
      source  |-> IF chunks[i].metadata.present
                     /\ chunks[i].metadata.source # ""
                  THEN chunks[i].metadata.source
                  ELSE IF chunks[i].source # "" THEN chunks[i].source
                       ELSE "unknown",
      content |-> chunks[i].content]] \o <<>>

\* a chat that gives up when the retrieval did not succeed
UseRagOrThrow(ragResult) ==
  [thrown     |-> ~ragResult.success,
   ragSources |-> ragResult.context,
   ragContext |-> formatContext(ragResult.context)]

\* the inner try of chat around retrieveContext: the sources and the context
\* are taken from a successful result only, and nothing leaves the try
UseRag(ragResult) ==
  [thrown     |-> FALSE,
   ragSources |-> IF ragResult.success THEN ragResult.context ELSE <<>>,
   ragContext |-> IF ragResult.success
                  THEN formatContext(ragResult.context) ELSE <<>>]

\* res.status(status).json({error, code})
JsonError(status, error, code) ==
  [status |-> status, error |-> error, code |-> code, body |-> NoResult,
   events |-> <<>>]

\* res.json(body)
JsonBody(body) ==
  [status |-> 200, error |-> "", code |-> "", body |-> body, events |-> <<>>]

\* the events written to an event stream
Streamed(events) ==
  [status |-> 200, error |-> "", code |-> "", body |-> NoResult,
   events |-> events]

TokenEvent == [type |-> "token", text |-> "token", sources |-> <<>>]

\* the completion event: the mode and the source and category of each chunk
CompleteEvent(mode, ragSources) ==
  [type |-> "complete", text |-> mode,
   sources |-> [i \in 1..Len(ragSources) |->
                  [source |-> ragSources[i].source,
                   category |-> ragSources[i].category]] \o <<>>]

ErrorEvent ==
  [type |-> "error", text |-> "Failed to generate response", sources |-> <<>>]

\* the query chat sends for a message in this mode
ChatQuery(mode) ==
  [question |-> "q", intent |-> "chat",
   topic |-> IF mode # VISITOR THEN mode ELSE "",
   hasBudget |-> FALSE, tokenBudget |-> 0]

\* the query RAGController.search sends for a validated body {query}
SearchQuery ==
  [question |-> "q", intent |-> "question", topic |-> "",
   hasBudget |-> FALSE, tokenBudget |-> 0]

(***************************************************************************)
(* State.                                                                  *)
(***************************************************************************)
VARIABLES
  now,           \* the wall clock (new Date()), in days
  op,            \* the function last called directly: "none", "rank", ...
                 \* ("diversify2", "trim2": called on its own output;
                 \* "trimMore": called again with a budget not smaller)
  xs,            \* its chunk sequence argument
  arg,           \* its second argument (limitPerSource or budget; 0 for rank)
  out,           \* what it returned
  repeated,      \* TRUE when the call was made a second time on the same input
  prevOut,       \* what the first of the two calls returned
  filterArgs,    \* the arguments of a direct buildFilters call
  filters,       \* the filter it returned
  pc,            \* where the retrieveContext call stands
  query,         \* its argument
  embedCalls,    \* generateEmbedding calls it has made
  embedOk,       \* TRUE once generateEmbedding has returned a vector
  searchCalls,   \* queryPinecone calls it has made
  searchRequest, \* the arguments of its queryPinecone call
  rawResults,    \* what queryPinecone returned
  result,        \* what it returned
  raised,        \* TRUE when it threw instead
  thrown,        \* the message of the exception a collaborator threw, or ""
  searchOutcome, \* what happened inside its queryPinecone call, or ""
  extractor,     \* EmbeddingService.extractor is loaded
  indexExists,   \* the Pinecone index exists
  vectors,       \* the Pinecone index holds vectors
  calls,         \* the concurrent retrieveContext calls, one record each:
                 \* where it stands, its query, the extractor and index
                 \* state it started from, the answers it got, its result
  sessionMode,   \* sessions.current_mode of the session of the chat
                 \* requests, "none" while the session does not exist
  origin,        \* what sessionMode was at first
  chats,         \* the chat requests, one record each
  searchResult,  \* what retrieveContext returned to RAGController.search
  searchReply    \* the reply RAGController.search sent

fnVars == <<op, xs, arg, out, repeated, prevOut, filterArgs, filters>>
callVars ==
  <<pc, query, embedCalls, embedOk, searchCalls, searchRequest, rawResults,
    result, raised, thrown, searchOutcome>>
serviceVars == <<extractor, indexExists, vectors>>
concVars == <<calls>>
httpVars == <<sessionMode, origin, chats, searchResult, searchReply>>
vars == <<now, fnVars, callVars, serviceVars, concVars, httpVars>>

Idle == pc = "idle" /\ op = "none"

\* nothing has been called; the model is not loaded
InitCalls ==
  /\ now = 0
  /\ op = "none" /\ xs = <<>> /\ arg = 0 /\ out = <<>>
  /\ repeated = FALSE /\ prevOut = <<>>
  /\ filterArgs = NoFilterArgs /\ filters = <<>>
  /\ pc = "idle" /\ query = NoQuery
  /\ embedCalls = 0 /\ embedOk = FALSE
  /\ searchCalls = 0 /\ searchRequest = NoRequest
  /\ rawResults = <<>> /\ result = NoResult /\ raised = FALSE
  /\ thrown = "" /\ searchOutcome = ""
  /\ extractor = FALSE
  /\ indexExists \in BOOLEAN
  /\ vectors \in {v \in BOOLEAN : v => indexExists}
  /\ calls = [p \in 1..MaxCalls |-> NoCall]
  /\ chats = [r \in 1..MaxRequests |-> NoChat]
  /\ searchResult = NoResult /\ searchReply = NoReply

\* the session of the chat requests does not exist yet
Init == InitCalls /\ sessionMode = "none" /\ origin = "none"

\* the index holds the knowledge base; the session does not exist yet, or it
\* is a session an administrator has set to operator in the database
InitHttp ==
  /\ InitCalls /\ vectors
  /\ sessionMode \in {"none", OPERATOR} /\ origin = sessionMode

(***************************************************************************)
(* Direct calls of the three pure stages.                                  *)
(***************************************************************************)
\* the function f applied to input at the time t
Apply(f, input, a, t) ==
  CASE f = "rank"      -> rankResults(input, t)
    [] f \in {"diversify", "diversify2"} -> diversify(input, a)
    [] f \in {"trim", "trim2", "trimMore"} -> trimToTokenBudget(input, a)
    [] OTHER           -> <<>>

Call(f, input, a) ==
  /\ op' = f /\ xs' = input /\ arg' = a
  /\ out' = Apply(f, input, a, now)
  /\ repeated' = FALSE /\ prevOut' = <<>>
  /\ UNCHANGED <<now, filterArgs, filters, callVars, serviceVars, concVars, httpVars>>

CallRank ==
  /\ Idle
  /\ \E input \in SeqsUpTo(RankPool, MaxLen) : Call("rank", input, 0)

CallDiversify ==
  /\ Idle
  /\ \E input \in SeqsUpTo(DivPool, MaxLen), limitPerSource \in 1..MaxLimit :
       Call("diversify", input, limitPerSource)

CallTrim ==
  /\ Idle
  /\ \E input \in SeqsUpTo(TrimPool, MaxLen), budget \in 0..MaxBudget :
       Call("trim", input, budget)

\* the same function is called again on the same arguments
CallAgain ==
  /\ op \in {"rank", "diversify", "trim"} /\ ~repeated
  /\ prevOut' = out
  /\ out' = Apply(op, xs, arg, now)
  /\ repeated' = TRUE
  /\ UNCHANGED <<now, op, xs, arg, filterArgs, filters, callVars,
                 serviceVars, concVars, httpVars>>

\* diversify or trimToTokenBudget is called on what it has just returned,
\* with the same limit or budget
CallOnOutput ==
  /\ op \in {"diversify", "trim"} /\ ~repeated
  /\ op' = IF op = "diversify" THEN "diversify2" ELSE "trim2"
  /\ xs' = out /\ prevOut' = out
  /\ out' = Apply(op', out, arg, now)
  /\ UNCHANGED <<now, arg, repeated, filterArgs, filters, callVars,
                 serviceVars, concVars, httpVars>>

\* trimToTokenBudget is called on the same chunks with a budget that is not
\* smaller
CallTrimMore ==
  /\ op = "trim" /\ ~repeated
  /\ \E budget \in arg..MaxBudget :
       /\ arg' = budget
       /\ out' = Apply("trimMore", xs, budget, now)
  /\ op' = "trimMore" /\ prevOut' = out
  /\ UNCHANGED <<now, xs, repeated, filterArgs, filters, callVars,
                 serviceVars, concVars, httpVars>>

\* buildFilters(intent, topic, extra) is called
CallBuildFilters ==
  /\ Idle
  /\ \E a \in FilterArgs :
       /\ filterArgs' = a
       /\ filters' = buildFilters(a.intent, a.topic, a.source)
  /\ op' = "filters" /\ xs' = <<>> /\ arg' = 0 /\ out' = <<>>
  /\ repeated' = FALSE /\ prevOut' = <<>>
  /\ UNCHANGED <<now, callVars, serviceVars, concVars, httpVars>>

\* the caller drops the result
Forget ==
  /\ op # "none"
  /\ op' = "none" /\ xs' = <<>> /\ arg' = 0 /\ out' = <<>>
  /\ repeated' = FALSE /\ prevOut' = <<>>
  /\ filterArgs' = NoFilterArgs /\ filters' = <<>>
  /\ UNCHANGED <<now, callVars, serviceVars, concVars, httpVars>>

\* a day passes
Tick ==
  /\ now < MaxClock
  /\ now' = now + 1
  /\ UNCHANGED <<fnVars, callVars, serviceVars, concVars, httpVars>>

(***************************************************************************)
(* retrieveContext, one action per await.                                  *)
(***************************************************************************)
\* the call is made; the filters are built (step a)
Start ==
  /\ Idle
  /\ \E q \in Queries : query' = q
  /\ pc' = "embedding"
  /\ embedCalls' = 0 /\ embedOk' = FALSE
  /\ searchCalls' = 0 /\ searchRequest' = NoRequest
  /\ rawResults' = <<>> /\ result' = NoResult /\ raised' = FALSE
  /\ thrown' = "" /\ searchOutcome' = ""
  /\ UNCHANGED <<now, fnVars, serviceVars, concVars, httpVars>>

\* a call without the try/catch: the exception reaches the caller
FailUncaught(message) ==
  /\ pc' = "done" /\ thrown' = message
  /\ raised' = TRUE /\ result' = NoResult

\* how the call ends when a collaborator throws an Error with this message
\* inside the try block
Fail(message) ==
  /\ pc' = "done" /\ thrown' = message
  /\ raised' = FALSE /\ result' = Caught(message)

\* b) await embeddingService.generateEmbedding(question): init() loads the
\* model when it is not loaded, then the extractor runs; either may throw
Embed ==
  /\ pc = "embedding"
  /\ embedCalls' = embedCalls + 1
  /\ \E loads \in BOOLEAN, runs \in BOOLEAN :
       IF ~extractor /\ ~loads
       THEN /\ Fail("model load failed")
            /\ UNCHANGED <<embedOk, extractor>>
       ELSE /\ extractor' = TRUE
            /\ IF runs
               THEN pc' = "searching" /\ embedOk' = TRUE
                    /\ UNCHANGED <<result, raised, thrown>>
               ELSE Fail("inference failed") /\ UNCHANGED embedOk
  /\ UNCHANGED <<now, fnVars, query, searchCalls, searchRequest, rawResults,
                 searchOutcome, indexExists, vectors, concVars, httpVars>>

\* how the call goes on after the await of queryPinecone: steps e) to h)
\* with what it returned, or the catch block when it threw
AfterSearch(answer, outcome) ==
  /\ rawResults' = answer.value
  /\ IF answer.raised
     THEN Fail(outcome)
     ELSE /\ result' = Assemble(answer.value, TokenBudgetOf(query), now)
          /\ pc' = "done"
          /\ UNCHANGED <<raised, thrown>>

\* c) await pineconeService.queryPinecone(queryEmbedding, 20, filters), then
\* steps e) to h); getIndex creates the index when it does not exist, and
\* only an index that holds vectors answers with matches
Search ==
  /\ pc = "searching"
  /\ searchCalls' = searchCalls + 1
  /\ searchRequest' =
       [topK |-> initialTopK,
        filter |-> buildFilters(query.intent, query.topic, "")]
  /\ \E outcome \in QueryOutcomes :
       /\ outcome = "createIndex throws" => ~indexExists
       /\ outcome = "matches" => vectors
       /\ searchOutcome' = outcome
       /\ indexExists' =
            IF outcome \in {"listIndexes throws", "createIndex throws"}
            THEN indexExists ELSE TRUE
       /\ IF outcome = "matches"
          THEN \E matches \in SeqsUpTo(MatchPool, MaxMatches) \ {<<>>} :
                 AfterSearch(queryPinecone(outcome, matches), outcome)
          ELSE AfterSearch(queryPinecone(outcome, <<>>), outcome)
  /\ UNCHANGED <<now, fnVars, query, embedCalls, embedOk, extractor, vectors,
                 concVars, httpVars>>

\* the caller has taken the result; nothing of the call is kept
Return ==
  /\ pc = "done"
  /\ pc' = "idle" /\ query' = NoQuery
  /\ embedCalls' = 0 /\ embedOk' = FALSE
  /\ searchCalls' = 0 /\ searchRequest' = NoRequest
  /\ rawResults' = <<>> /\ result' = NoResult /\ raised' = FALSE
  /\ thrown' = "" /\ searchOutcome' = ""
  /\ UNCHANGED <<now, fnVars, serviceVars, concVars, httpVars>>

\* retrieveContext calls, and direct calls of the budgeter that ends them
Next ==
  \/ Start \/ Embed \/ Search \/ Return
  \/ CallTrim \/ CallAgain \/ Forget \/ Tick

Spec == Init /\ [][Next]_vars

\* direct calls of the three pure stages; no retrieveContext call is made
\* and the services stay as they start
InitFn == Init /\ ~indexExists

NextFn ==
  \/ CallRank \/ CallDiversify \/ CallTrim \/ CallBuildFilters
  \/ CallAgain \/ CallOnOutput \/ CallTrimMore \/ Forget \/ Tick

SpecFn == InitFn /\ [][NextFn]_vars

(***************************************************************************)
(* Concurrent retrieveContext calls: one action per await of a call, the   *)
(* calls sharing embeddingService.extractor and the Pinecone index.        *)
(***************************************************************************)
\* the call p ends with this result
Finish(p, c, r) ==
  calls' = [calls EXCEPT ![p] = [c EXCEPT !.pc = "done", !.result = r]]

\* the call p ends after queryPinecone ended with this outcome
FinishSearch(p, c, outcome, matches) ==
  LET answer == queryPinecone(outcome, matches) IN
  Finish(p, c, IF answer.raised THEN Caught(outcome)
               ELSE Assemble(answer.value, TokenBudgetOf(c.query), now))

\* retrieveContext is called: buildFilters, generateEmbedding and init() run
\* up to the first await; init() starts a load when no extractor is set
Enter(p) ==
  /\ pc = "idle" /\ op = "none"
  /\ calls[p].pc = "idle"
  /\ \E q \in ConcQueries :
       calls' = [calls EXCEPT ![p] =
                   [NoCall EXCEPT !.query = q,
                                  !.extractor0 = extractor,
                                  !.index0 = indexExists,
                                  !.pc = IF extractor THEN "running"
                                         ELSE "loading"]]
  /\ UNCHANGED <<now, fnVars, callVars, serviceVars, httpVars>>

\* the load of the model that init() awaits resolves or rejects
Loaded(p) ==
  /\ calls[p].pc = "loading"
  /\ \E ok \in BOOLEAN :
       LET c == [calls[p] EXCEPT !.load = IF ok THEN "ok" ELSE "fail"] IN
       /\ extractor' = ExtractorAfterLoad(extractor, ok)
       /\ IF ok
          THEN calls' = [calls EXCEPT ![p] = [c EXCEPT !.pc = "running"]]
          ELSE Finish(p, c, Caught("model load failed"))
  /\ UNCHANGED <<now, fnVars, callVars, indexExists, vectors, httpVars>>

\* await this.extractor(text, ...): the call of what this.extractor holds
\* now, and its answer
Ran(p) ==
  /\ calls[p].pc = "running"
  /\ IF ~extractor
     THEN Finish(p, calls[p], Caught("this.extractor is not a function"))
     ELSE \E ok \in BOOLEAN :
            LET c == [calls[p] EXCEPT !.run = IF ok THEN "ok" ELSE "fail"] IN
            IF ok
            THEN calls' = [calls EXCEPT ![p] = [c EXCEPT !.pc = "listing"]]
            ELSE Finish(p, c, Caught("inference failed"))
  /\ UNCHANGED <<now, fnVars, callVars, serviceVars, httpVars>>

\* getIndex: listIndexes answers, with the index in it or not
Listed(p) ==
  /\ calls[p].pc = "listing"
  /\ \E ok \in BOOLEAN :
       LET c == [calls[p] EXCEPT !.list = IF ok THEN "ok" ELSE "fail"] IN
       IF ~ok THEN FinishSearch(p, c, "listIndexes throws", <<>>)
       ELSE calls' = [calls EXCEPT ![p] =
                        [c EXCEPT !.pc = IF indexExists THEN "querying"
                                         ELSE "creating"]]
  /\ UNCHANGED <<now, fnVars, callVars, serviceVars, httpVars>>

\* getIndex: createIndex answers; it fails by itself or because the index
\* exists by now
Created(p) ==
  /\ calls[p].pc = "creating"
  /\ \E ok \in BOOLEAN :
       LET c == [calls[p] EXCEPT !.create = IF ok THEN "ok" ELSE "fail"] IN
       IF ok /\ ~indexExists
       THEN /\ indexExists' = TRUE
            /\ calls' = [calls EXCEPT ![p] = [c EXCEPT !.pc = "querying"]]
       ELSE /\ FinishSearch(p, c, "createIndex throws", <<>>)
            /\ UNCHANGED indexExists
  /\ UNCHANGED <<now, fnVars, callVars, extractor, vectors, httpVars>>

\* index.query answers; only an index that holds vectors has matches
Queried(p) ==
  /\ calls[p].pc = "querying"
  /\ \E outcome \in {"query throws", "no matches", "matches"} :
       /\ outcome = "matches" => vectors
       /\ \E matches \in IF outcome = "matches" THEN ConcMatches ELSE {<<>>} :
            FinishSearch(p, [calls[p] EXCEPT !.qry = outcome,
                                             !.matches = matches],
                         outcome, matches)
  /\ UNCHANGED <<now, fnVars, callVars, serviceVars, httpVars>>

\* the caller of p has taken the result
Leave(p) ==
  /\ calls[p].pc = "done"
  /\ calls' = [calls EXCEPT ![p] = NoCall]
  /\ UNCHANGED <<now, fnVars, callVars, serviceVars, httpVars>>

NextConc ==
  \E p \in 1..MaxCalls :
    \/ Enter(p) \/ Loaded(p) \/ Ran(p) \/ Listed(p) \/ Created(p)
    \/ Queried(p) \/ Leave(p)

SpecConc == Init /\ [][NextConc]_vars

(***************************************************************************)
(* The endpoints: POST /api/chat and POST /api/rag/search.                 *)
(***************************************************************************)
\* chat up to the end of getOrCreateSession: the injection check, the
\* sanitizing, and the session found or created as visitor
Receive(r) ==
  /\ pc = "idle" /\ op = "none"
  /\ chats[r].pc = "idle" /\ searchReply = NoReply
  /\ \E message \in Messages :
       IF Checked[message].injection
       THEN /\ chats' = [chats EXCEPT ![r] =
                           [NoChat EXCEPT
                              !.pc = "done",
                              !.reply = JsonError(400, "Invalid request",
                                                  "SECURITY_VIOLATION")]]
            /\ UNCHANGED sessionMode
       ELSE /\ sessionMode' = IF sessionMode = "none" THEN VISITOR
                              ELSE sessionMode
            /\ chats' = [chats EXCEPT ![r] =
                           [NoChat EXCEPT
                              !.pc = "determine",
                              !.message = Checked[message].sanitized,
                              !.snapshot = sessionMode']]
  /\ UNCHANGED <<now, fnVars, callVars, serviceVars, concVars, origin,
                 searchResult, searchReply>>

\* const mode = await modeService.determineMode(session.id, sanitizedMessage)
Determine(r) ==
  /\ chats[r].pc = "determine"
  /\ chats' = [chats EXCEPT ![r] =
                 [@ EXCEPT !.pc = "update",
                           !.readMode = sessionMode,
                           !.mode = determineMode(sessionMode,
                                                   chats[r].message),
                           !.message = <<>>]]
  /\ UNCHANGED <<now, fnVars, callVars, serviceVars, concVars, sessionMode,
                 origin, searchResult, searchReply>>

\* if (mode !== session.currentMode) await updateSessionMode(session.id, mode)
Update(r) ==
  /\ chats[r].pc = "update"
  /\ sessionMode' = IF chats[r].mode # chats[r].snapshot THEN chats[r].mode
                    ELSE sessionMode
  /\ chats' = [chats EXCEPT ![r] = [@ EXCEPT !.pc = "respond",
                                             !.snapshot = "none",
                                             !.readMode = "none"]]
  /\ UNCHANGED <<now, fnVars, callVars, serviceVars, concVars, origin,
                 searchResult, searchReply>>

\* the rest of chat: the message is stored, the contexts are built (the
\* retrieveContext call among them) and the response is streamed; fault says
\* whether a database call after the retrieval throws ("database"),
\* aiService.streamChat throws ("stream") or neither does
Respond(r) ==
  /\ chats[r].pc = "respond"
  /\ \E w \in RequestAnswers, fault \in {"none", "database", "stream"} :
       /\ w.qry = "matches" => vectors
       /\ LET ragResult == retrieveContext(ChatQuery(chats[r].mode), extractor,
                                           indexExists, w, now)
              use       == UseRag(ragResult)
              after     == ServicesAfter(extractor, indexExists, w)
          IN /\ extractor' = after.extractor
             /\ indexExists' = after.indexExists
             /\ chats' = [chats EXCEPT ![r] =
                   [@ EXCEPT
                      !.pc = "done",
                      !.rag = ragResult,
                      !.ragContext = use.ragContext,
                      !.faults = IF use.thrown \/ fault = "none" THEN {}
                                 ELSE {fault},
                      !.reply =
                        IF use.thrown \/ fault = "database"
                        THEN JsonError(500, "Internal server error",
                                       "INTERNAL_ERROR")
                        ELSE IF fault = "none"
                             THEN Streamed(<<TokenEvent,
                                             CompleteEvent(chats[r].mode,
                                                           use.ragSources)>>)
                             ELSE Streamed(<<TokenEvent, ErrorEvent>>)]]
  /\ UNCHANGED <<now, fnVars, callVars, vectors, concVars, sessionMode,
                 origin, searchResult, searchReply>>

\* a database call of chat throws before the response is streamed: the outer
\* catch answers 500
Crash(r) ==
  /\ chats[r].pc \in {"determine", "update", "respond"}
  /\ chats' = [chats EXCEPT ![r] =
                 [@ EXCEPT !.pc = "done", !.message = <<>>,
                           !.snapshot = "none", !.readMode = "none",
                           !.faults = {"database"},
                           !.reply = JsonError(500, "Internal server error",
                                               "INTERNAL_ERROR")]]
  /\ UNCHANGED <<now, fnVars, callVars, serviceVars, concVars, sessionMode,
                 origin, searchResult, searchReply>>

\* the reply of the chat request r has gone out
Sent(r) ==
  /\ chats[r].pc = "done"
  /\ chats' = [chats EXCEPT ![r] = NoChat]
  /\ UNCHANGED <<now, fnVars, callVars, serviceVars, concVars, sessionMode,
                 origin, searchResult, searchReply>>

\* RAGController.search: res.json(await retrieveContext({...}))
RagSearch ==
  /\ pc = "idle" /\ op = "none"
  /\ searchReply = NoReply
  /\ \A r \in 1..MaxRequests : chats[r].pc = "idle"
  /\ \E w \in RequestAnswers :
       /\ w.qry = "matches" => vectors
       /\ LET after == ServicesAfter(extractor, indexExists, w) IN
          /\ extractor' = after.extractor
          /\ indexExists' = after.indexExists
       /\ searchResult' =
            retrieveContext(SearchQuery, extractor, indexExists, w, now)
       /\ searchReply' = JsonBody(searchResult')
  /\ UNCHANGED <<now, fnVars, callVars, vectors, concVars, sessionMode,
                 origin, chats>>

\* the reply of the search request has gone out
SearchSent ==
  /\ searchReply # NoReply
  /\ searchResult' = NoResult /\ searchReply' = NoReply
  /\ UNCHANGED <<now, fnVars, callVars, serviceVars, concVars, sessionMode,
                 origin, chats>>

NextHttp ==
  \/ \E r \in 1..MaxRequests :
       \/ Receive(r) \/ Determine(r) \/ Update(r) \/ Respond(r)
       \/ Crash(r) \/ Sent(r)
  \/ RagSearch \/ SearchSent

SpecHttp == InitHttp /\ [][NextHttp]_vars

(***************************************************************************)
(* Properties.                                                             *)
(***************************************************************************)
Range(seq) == {seq[i] : i \in DOMAIN seq}

\* the similarity of the cleaned texts of two chunks exceeds 0.85
NearDuplicates(a, b) ==
  ExceedsThreshold(
    jaccardSimilarity(cleanText(a.content), cleanText(b.content)))

\* the sum of ceil(len(content) / 4) over the chunks
RECURSIVE TokenEstimate(_)
TokenEstimate(chunks) ==
  IF chunks = <<>> THEN 0
  ELSE ((Len(Head(chunks).content) + 3) \div 4) + TokenEstimate(Tail(chunks))

\* the candidate without the fields rankResults adds
Candidate(r) ==
  [content |-> r.content, source |-> r.source, category |-> r.category,
   score |-> r.score, metadata |-> r.metadata]

\* a < b on scores, false when either is NaN
ScoreLT(a, b) == ~IsNaN(a) /\ ~IsNaN(b) /\ a < b

\* C1: the output of diversify holds at most limitPerSource chunks of any one
\* source, whatever the source strings are
C1_SourceCap ==
  op = "diversify" =>
    \A c \in Range(out) :
      Cardinality({i \in DOMAIN out : MetaSource(out[i]) = MetaSource(c)})
        <= arg

\* C2: no two chunks of the output of diversify have cleaned texts whose
\* Jaccard similarity exceeds 0.85
C2_NoNearDuplicates ==
  op = "diversify" =>
    \A i, j \in DOMAIN out : i < j => ~NearDuplicates(out[i], out[j])

\* a diversify call that dropped a near-duplicate and kept two chunks
C2_Witness ==
  /\ op = "diversify" /\ Len(out) >= 2
  /\ \E i \in DOMAIN xs :
       /\ xs[i] \notin Range(out)
       /\ \E j \in DOMAIN out : NearDuplicates(xs[i], out[j])

\* C3: the summed token estimate of the chunks trimToTokenBudget returns is
\* at most the budget; in retrieveContext the budget is query.tokenBudget,
\* or 2000 when the query has none
C3_WithinBudget ==
  /\ op = "trim" => TokenEstimate(out) <= arg
  /\ (pc = "done" /\ result.success) =>
       TokenEstimate(result.context)
         <= (IF query.hasBudget THEN query.tokenBudget ELSE 2000)

\* a retrieveContext call without tokenBudget whose diversified chunks
\* exceed 2000 tokens, and that returned one of them
C3_Witness ==
  /\ pc = "done" /\ result.success /\ ~query.hasBudget
  /\ result.context # <<>>
  /\ TokenEstimate(diversify(rankResults(rawResults, now), 2)) > 2000

\* C4: when the embedding collaborator throws, retrieveContext returns
\* success=false, no chunks, totalTokens=0 and the message, and does not raise
C4_EmbeddingFailureIsSoft ==
  (pc = "done" /\ ~embedOk) =>
    /\ ~raised
    /\ result = [success |-> FALSE, context |-> <<>>, totalTokens |-> 0,
                 error |-> thrown]
    /\ thrown # ""

\* a call whose embedding request threw
C4_Witness == pc = "done" /\ ~embedOk /\ embedCalls = 1 /\ thrown # ""

\* C5: retrieveContext never raises: every call that ends has returned a
\* result, successful or not
C5_NeverRaises ==
  /\ ~raised
  /\ pc = "done" => result # NoResult /\ result.success \in BOOLEAN

\* calls that ended after a collaborator threw
C5_Witness == pc = "done" /\ thrown = "inference failed" /\ ~result.success

\* C6: when vector search returns no candidates, retrieveContext returns
\* success=true, no chunks and totalTokens=0
C6_EmptySearchSucceeds ==
  (pc = "done" /\ searchCalls = 1 /\ rawResults = <<>>) =>
    result = [success |-> TRUE, context |-> <<>>, totalTokens |-> 0,
              error |-> ""]

\* a call whose vector search returned the empty sequence
C6_Witness ==
  pc = "done" /\ embedOk /\ searchCalls = 1 /\ rawResults = <<>>

\* C7: the output of rankResults is non-increasing by composite score (no
\* chunk comes before one of a higher score), and candidates of equal
\* composite score keep their input order
C7_RankedStable ==
  op = "rank" =>
    /\ \A i, j \in DOMAIN out :
         i < j => ~ScoreLT(out[i].final_score, out[j].final_score)
    /\ \A r \in Range(out) :
         LET tied(x) == ~IsNaN(r.final_score) /\ x.final_score = r.final_score
             mine(c) == \E k \in DOMAIN out :
                          tied(out[k]) /\ Candidate(out[k]) = c
             kept    == SelectSeq(out, tied)
         IN [k \in 1..Len(kept) |-> Candidate(kept[k])] \o <<>>
              = SelectSeq(xs, mine)

\* C8: for candidates whose createdAt is absent or a timestamp, each of the
\* five factors is in [0,1] and the composite score is their weighted sum
\* with weights 0.50, 0.20, 0.15, 0.10, 0.05, hence in [0,1]
C8_ScoresInUnitInterval ==
  op = "rank" =>
    \A r \in Range(out) :
      r.metadata.createdAt.kind # "invalid" =>
        /\ \A f \in {r.debug_scores.semantic, r.debug_scores.recency,
                     r.debug_scores.credibility, r.debug_scores.section,
                     r.debug_scores.quality} : f \in 0..ONE
        /\ r.final_score = 50 * r.debug_scores.semantic
                           + 20 * r.debug_scores.recency
                           + 15 * r.debug_scores.credibility
                           + 10 * r.debug_scores.section
                           + 5 * r.debug_scores.quality
        /\ r.final_score \in 0..(100 * ONE)

\* C9: a second call of rankResults, diversify or trimToTokenBudget on the
\* same input returns what the first call returned, whenever it is made
C9_RepeatedCallsAgree == repeated => out = prevOut

C14_TotalIsSumOfEstimates ==
  (pc = "done" /\ result.success) =>
    result.totalTokens = TokenEstimate(result.context)

\* C18: queryPinecone never propagates a failure: when listing or creating
\* the index or the query fails it returns the empty sequence, and
\* retrieveContext then reports success=true with no chunks
C18_SearchFailureSwallowed ==
  (pc = "done" /\ searchOutcome \in QueryFailures) =>
    /\ ~raised /\ thrown = ""
    /\ rawResults = <<>>
    /\ result = [success |-> TRUE, context |-> <<>>, totalTokens |-> 0,
                 error |-> ""]

\* a call whose index query threw against an index that holds vectors
C18_Witness ==
  /\ pc = "done" /\ embedOk /\ searchCalls = 1 /\ vectors
  /\ searchOutcome = "query throws"

\* C12: for every intent that is not one of the table keys coding, question,
\* chat, debug, the filter buildFilters returns has no category predicate
C12_NoCategoryForUnknownIntent ==
  (op = "filters" /\ filterArgs.intent \notin IntentKeys) =>
    "category" \notin DOMAIN filters

\* C13: buildFilters returns exactly a category-in-set predicate equal to
\* the table entry when intent is a table key, topic = topic if and only if
\* a topic is given, and source = extra.source if and only if extra.source
\* is given
C13_ExactlyThesePredicates ==
  op = "filters" =>
    /\ DOMAIN filters =
         (IF filterArgs.intent \in {"coding", "question", "chat", "debug"}
          THEN {"category"} ELSE {})
         \cup (IF filterArgs.topic # "" THEN {"topic"} ELSE {})
         \cup (IF filterArgs.source # "" THEN {"source"} ELSE {})
    /\ filterArgs.intent = "coding" =>
         filters.category = [in |-> {"code", "technical_docs"}]
    /\ filterArgs.topic # "" => filters.topic = filterArgs.topic
    /\ filterArgs.source # "" => filters.source = filterArgs.source

\* xs without some of its elements, the others in their order
RECURSIVE IsSubsequence(_, _)
IsSubsequence(a, b) ==
  IF a = <<>> THEN TRUE
  ELSE IF b = <<>> THEN FALSE
       ELSE IF Head(a) = Head(b) THEN IsSubsequence(Tail(a), Tail(b))
            ELSE IsSubsequence(a, Tail(b))

\* C20: the output of diversify is a subsequence of its input: input chunks
\* only, each position at most once, in the order of the input
C20_OutputIsSubsequence ==
  op = "diversify" => IsSubsequence(out, xs)

\* a diversify call that kept two chunks and dropped one between them
C20_Witness ==
  /\ op = "diversify" /\ Len(xs) = 3 /\ Len(out) = 2
  /\ out[1] = xs[1] /\ out[2] = xs[3] /\ xs[2] # xs[1] /\ xs[2] # xs[3]

\* the answers a call may get to the requests it makes when run alone: those
\* it got, and any answer to a request it did not make here (a new index is
\* empty, so its query has no matches)
AnswersAlone(c) ==
  LET known(x) == IF x = "" THEN {"ok", "fail"} ELSE {x} IN
  [load : known(c.load), run : known(c.run), list : known(c.list),
   create : known(c.create),
   qry : IF c.qry = "" THEN {"query throws", "no matches"} ELSE {c.qry},
   matches : {c.matches}]

\* C11: whatever the interleaving of concurrent retrieveContext calls, each
\* call returns what it would return if run alone, from the extractor and
\* index state it started in, against the same collaborator answers
C11_CallsAreIndependent ==
  \A p \in 1..MaxCalls :
    calls[p].pc = "done" =>
      \A w \in AnswersAlone(calls[p]) :
        calls[p].result =
          retrieveContext(calls[p].query, calls[p].extractor0,
                          calls[p].index0, w, now)

\* a call that found no extractor and no index when it started and whose
\* createIndex failed after another call, which loaded the model too, had
\* created the index
C11_Witness ==
  \E p, o \in 1..MaxCalls :
    /\ p # o
    /\ calls[p].pc = "done" /\ ~calls[p].extractor0 /\ ~calls[p].index0
    /\ calls[p].create = "fail" /\ calls[p].result.success
    /\ calls[o].pc \in {"querying", "done"} /\ calls[o].create = "ok"
    /\ calls[o].load = "ok" /\ ~calls[o].extractor0

\* every text a reply holds
TextsOf(reply) ==
  {reply.error, reply.body.error}
    \cup {reply.events[i].text : i \in DOMAIN reply.events}

\* C15: no reply to an end user holds the error text of a failed retrieval:
\* neither the body of the RAG search endpoint nor the events of the chat
\* endpoint hold the error message retrieveContext returned
C15_NoInternalErrorText ==
  /\ \A r \in 1..MaxRequests :
       (chats[r].pc = "done" /\ chats[r].rag # NoResult
          /\ ~chats[r].rag.success) =>
         chats[r].rag.error \notin TextsOf(chats[r].reply)
  /\ (searchReply # NoReply /\ ~searchResult.success) =>
       searchResult.error \notin TextsOf(searchReply)

\* C16: when retrieveContext returns success=false to chat, the request
\* goes on with an empty RAG context and an empty source list, and unless
\* something else fails (a database call, the language model) it streams
\* the response to its completion event
C16_ChatSurvivesRetrievalFailure ==
  \A r \in 1..MaxRequests :
    (chats[r].pc = "done" /\ chats[r].rag # NoResult
       /\ ~chats[r].rag.success) =>
      /\ chats[r].ragContext = <<>>
      /\ chats[r].faults = {} =>
           chats[r].reply =
             Streamed(<<TokenEvent, CompleteEvent(chats[r].mode, <<>>)>>)

\* a chat request whose retrieval failed and that streamed to the end
C16_Witness ==
  \E r \in 1..MaxRequests :
    /\ chats[r].pc = "done" /\ ~chats[r].rag.success
    /\ chats[r].rag.error = "inference failed"
    /\ chats[r].faults = {} /\ chats[r].mode = BUILDER

\* C19: determineMode never returns operator for a session whose mode is
\* not operator already, and a session that starts as a new (visitor)
\* session never gets the mode operator, whatever messages are sent
C19_OperatorIsLocked ==
  /\ \A r \in 1..MaxRequests :
       (chats[r].pc = "update" /\ chats[r].mode = OPERATOR) =>
         chats[r].readMode = OPERATOR
  /\ origin = "none" => sessionMode # OPERATOR

\* a new session that has reached builder and gets another upgrade request
C19_Witness ==
  \E r \in 1..MaxRequests :
    /\ origin = "none" /\ chats[r].pc = "update"
    /\ chats[r].readMode = BUILDER /\ chats[r].mode = BUILDER
    /\ chats[r].snapshot = EXPLORER

\* what diversify has accepted when the turn of xs[i] comes: the loop reads
\* the candidates in order, so it is what diversify returns for the
\* candidates before xs[i]
AcceptedBefore(i) == diversify(SubSeq(xs, 1, i - 1), arg)

\* diversify does not accept xs[i] at its turn
OmittedAt(i) ==
  Len(diversify(SubSeq(xs, 1, i), arg)) = Len(AcceptedBefore(i))

\* C21: diversify omits a candidate only if, at its turn, limitPerSource
\* chunks with the candidate's source field were already accepted or an
\* accepted chunk is more than 0.85 similar to it; candidates of pairwise
\* different sources and pairwise dissimilar contents are all kept, and of
\* more than limitPerSource dissimilar candidates of one source exactly the
\* first limitPerSource are kept
C21_OmitsOnlyForCapOrDuplicate ==
  op = "diversify" =>
    /\ \A i \in DOMAIN xs :
         OmittedAt(i) =>
           LET accepted == AcceptedBefore(i) IN
           \/ Cardinality({j \in DOMAIN accepted :
                             accepted[j].source = xs[i].source}) >= arg
           \/ \E j \in DOMAIN accepted : NearDuplicates(xs[i], accepted[j])
    /\ (\A i, j \in DOMAIN xs :
          i # j => /\ xs[i].source # xs[j].source
                   /\ ~NearDuplicates(xs[i], xs[j]))
         => out = xs
    /\ ( /\ Len(xs) > arg
         /\ \A i, j \in DOMAIN xs :
              /\ xs[i].source = xs[j].source
              /\ i # j => ~NearDuplicates(xs[i], xs[j]) )
         => out = SubSeq(xs, 1, arg)

\* C22: trimToTokenBudget returns the longest prefix of its input whose summed
\* token estimate is at most the budget: the chunks up to, and without, the
\* first one that would overflow, each of them unchanged
C22_LongestFittingPrefix ==
  op = "trim" =>
    \E n \in 0..Len(xs) :
      /\ out = SubSeq(xs, 1, n)
      /\ TokenEstimate(SubSeq(xs, 1, n)) <= arg
      /\ n < Len(xs) => TokenEstimate(SubSeq(xs, 1, n + 1)) > arg

\* a trim call that stopped at its second chunk although the third, a
\* smaller one, would have fitted
C22_Witness ==
  /\ op = "trim" /\ Len(xs) = 3 /\ out = <<xs[1]>>
  /\ TokenEstimate(<<xs[1], xs[2]>>) > arg
  /\ TokenEstimate(<<xs[1], xs[3]>>) <= arg
  /\ xs[3].content # <<>>

\* C23: of two candidates of different sources whose cleaned contents are
\* more than 0.85 similar (identical contents among them), diversify does
\* not accept the lower-ranked one once it has accepted the higher-ranked
\* one; two such candidates alone give the higher-ranked one only
C23_CrossSourceDedup ==
  op = "diversify" =>
    /\ \A i, j \in DOMAIN xs :
         ( /\ i < j
           /\ xs[i].source # xs[j].source
           /\ MetaSource(xs[i]) # MetaSource(xs[j])
           /\ NearDuplicates(xs[i], xs[j])
           /\ ~OmittedAt(i) ) => OmittedAt(j)
    /\ ( /\ Len(xs) = 2
         /\ xs[1].source # xs[2].source
         /\ NearDuplicates(xs[1], xs[2]) ) => out = <<xs[1]>>

\* a diversify call on two near-duplicates of different sources, the second
\* one word longer than the first, neither source at its cap
C23_Witness ==
  /\ op = "diversify" /\ Len(xs) = 2 /\ arg = 2
  /\ MetaSource(xs[1]) # MetaSource(xs[2])
  /\ xs[1].source # xs[2].source
  /\ cleanText(xs[1].content) # cleanText(xs[2].content)
  /\ NearDuplicates(xs[1], xs[2])
  /\ out = <<xs[1]>>

\* C24: for two candidates of a diversify call whose contents are empty
\* after cleaning, the similarity that diversify computes is 0, so that
\* neither is a duplicate of the other
C24_EmptyTextsAreNoDuplicates ==
  op = "diversify" =>
    \A i, j \in DOMAIN xs :
      ( /\ i # j
        /\ cleanText(xs[i].content) = <<>>
        /\ cleanText(xs[j].content) = <<>> ) =>
        LET sim == jaccardSimilarity(cleanText(xs[i].content),
                                     cleanText(xs[j].content))
        IN sim.num = 0 /\ ~ExceedsThreshold(sim)

\* C25: a candidate of rankResults whose metadata.createdAt cannot be parsed
\* as a date gets the recency factor 0.5 and a composite score that is a
\* number, and the output of such a call is in non-increasing score order
C25_UnparsableDateIsNeutral ==
  (op = "rank" /\ \E k \in DOMAIN xs :
                    /\ xs[k].metadata.present
                    /\ xs[k].metadata.createdAt.kind = "invalid") =>
    /\ Len(out) = Len(xs)
    /\ \A k \in DOMAIN out :
         (out[k].metadata.present
            /\ out[k].metadata.createdAt.kind = "invalid") =>
           /\ out[k].debug_scores.recency = ONE \div 2
           /\ ~IsNaN(out[k].final_score)
    /\ \A k \in 1..(Len(out) - 1) :
         ~ScoreLT(out[k].final_score, out[k + 1].final_score)

\* the credibility table, read with the source field of a chunk
TableCredibility(source) ==
  CASE source = "official_docs" -> ONE
    [] source = "internal_wiki" -> (ONE * 9) \div 10
    [] source = "github_repo"   -> (ONE * 8) \div 10
    [] source = "stackoverflow" -> (ONE * 6) \div 10
    [] OTHER                    -> ONE \div 2

\* C26: every chunk that retrieveContext returns carries the credibility
\* factor the table gives for its source, 0.5 for a source not in the table
C26_CredibilityOfSource ==
  (pc = "done" /\ result.success) =>
    \A k \in DOMAIN result.context :
      result.context[k].debug_scores.credibility
        = TableCredibility(result.context[k].source)

\* a >= b on scores, false when either is NaN
ScoreGE(a, b) == ~IsNaN(a) /\ ~IsNaN(b) /\ a >= b

\* C27: of two candidates of a rankResults call that differ in their
\* similarity score only, the one of the higher similarity gets a composite
\* score greater than or equal to the other's
C27_MonotoneInSemantic ==
  op = "rank" =>
    \A a, b \in Range(out) :
      ( /\ [Candidate(a) EXCEPT !.score = 0] = [Candidate(b) EXCEPT !.score = 0]
        /\ a.score > b.score ) =>
        ScoreGE(a.final_score, b.final_score)

C29_OneCreateIndex ==
  /\ Cardinality({p \in 1..MaxCalls : calls[p].pc = "creating"}) <= 1
  /\ \A p \in 1..MaxCalls :
       ~ ( /\ calls[p].pc = "done" /\ calls[p].create = "ok"
           /\ calls[p].qry = "" /\ calls[p].result.success
           /\ calls[p].result.context = <<>> )

\* a is the sequence of the first Len(a) elements of b
IsPrefix(a, b) == Len(a) <= Len(b) /\ a = SubSeq(b, 1, Len(a))

\* C30: diversify and trimToTokenBudget, called on what they have returned
\* (same limit, same budget), return it unchanged; and what
\* trimToTokenBudget returns for a budget is a prefix of what it returns for
\* the same chunks and any budget that is not smaller
C30_IdempotentAndMonotone ==
  /\ op \in {"diversify2", "trim2"} => out = xs
  /\ op = "trimMore" => IsPrefix(prevOut, out)

\* a budget under which one chunk of three fitted, raised to one under which
\* two fit and the third still does not
C30_Witness ==
  /\ op = "trimMore" /\ Len(xs) = 3
  /\ Len(prevOut) = 1 /\ out = SubSeq(xs, 1, 2)
  /\ TokenEstimate(<<xs[1], xs[3]>>) <= arg

====
